---- MODULE Spec2Model ----
(***************************************************************************)
(* Security Monitoring & Threat Detection Engine (src/security.py,         *)
(* class SecurityHandler): the threat log, the monitoring loop and its     *)
(* start/stop lifecycle, the file scanner and the status queries.          *)
(*                                                                         *)
(* Time is a logical clock `now` in ticks.  Timestamps are stored by the   *)
(* code as datetime.now().isoformat() and read back with                   *)
(* datetime.fromisoformat(); that round trip is exact for naive datetimes  *)
(* (microsecond precision both ways), so an entry carries the clock value. *)
(* Every entry also carries a ghost field `id`, the ordinal of the         *)
(* log_threat call that made it, so that two entries with equal content    *)
(* stay distinguishable; entries logged before the observed run have       *)
(* ids <= 0.                                                               *)
(***************************************************************************)
EXTENDS Integers, Sequences, FiniteSets, TLC

VARIABLES
    is_monitoring,          \* SecurityHandler.is_monitoring
    monitoring_thread,      \* SecurityHandler.monitoring_thread: 0 is None, else a task id
    threat_log,             \* SecurityHandler.threat_log
    whitelisted_processes,  \* SecurityHandler.whitelisted_processes
    task,                   \* position of every _monitoring_loop thread
    fs,                     \* the file system: a function from the existing paths to their content
    now,                    \* the clock, in ticks (TicksPerSecond to the second)
    nlogged,                \* ghost: number of log_threat calls made in this run
    lastOp,                 \* ghost: the last operation, its arguments and what it returned
    spoken,                 \* the notices speak() received during the last operation
    caller,                 \* threads inside a non-atomic call (interleaving specifications)
    pruned,                 \* ghost: largest cutoff a cleanup_threat_log has applied, -1 if none
    lastCtl,                \* ghost: the last of start_monitoring / stop_monitoring called, if any
    observed                \* ghost: what earlier calls returned (scans, quarantines, whitelist calls)

vars == <<is_monitoring, monitoring_thread, threat_log, whitelisted_processes,
          task, fs, now, nlogged, lastOp, spoken, caller, pruned, lastCtl, observed>>

(***************************************************************************)
(* Bounds of the model.                                                    *)
(***************************************************************************)
MaxThreats == 2      \* log_threat calls in one run
MaxTasks == 2        \* _monitoring_loop threads ever launched in one run
Headroom == 1        \* a log that starts near capacity starts this far below it
MaxCallers == 2      \* threads calling the handler concurrently

(***************************************************************************)
(* Program constants.                                                      *)
(***************************************************************************)
Capacity == 1000

\* The clock counts half seconds: strftime('%Y%m%d_%H%M%S') keeps whole
\* seconds, isoformat() keeps every tick.
TicksPerSecond == 2
HOUR == 3600 * TicksPerSecond
DAY == 24 * HOUR

None == "None"

\* ------------------------------------------------------------------------
\* Threat log
\* ------------------------------------------------------------------------

high_severity ==
    {"suspicious_process", "malware_detected", "unauthorized_access",
     "suspicious_network_connection"}

medium_severity ==
    {"high_cpu_usage", "high_memory_usage", "unusual_file_activity"}

\* Every kind the engine itself logs, the table's kinds it never logs, and
\* one kind that no table or call site knows.
EngineKinds ==
    {"suspicious_process", "high_cpu_usage", "high_memory_usage",
     "high_system_cpu", "high_system_memory", "low_disk_space",
     "suspicious_network_connection", "file_threat_detected", "file_quarantined"}

ThreatKinds ==
    EngineKinds \cup high_severity \cup medium_severity \cup {"port_scan"}

\* Mutant: the medium table is consulted first and also holds
\* suspicious_network_connection.
get_threat_severity_swapped(threat_type) ==
    IF threat_type \in medium_severity \cup {"suspicious_network_connection"} THEN "medium"
    ELSE IF threat_type \in high_severity THEN "high"
    ELSE "low"

get_threat_severity(threat_type) ==
    IF threat_type \in high_severity THEN "high"
    ELSE IF threat_type \in medium_severity THEN "medium"
    ELSE "low"

ThreatEntry(id, ts, threat_type, details) ==
    [id |-> id,
     timestamp |-> ts,
     type |-> threat_type,
     details |-> details,
     severity |-> get_threat_severity(threat_type)]

\* self.threat_log[-1000:]
LastN(s, n) ==
    IF Len(s) > n THEN SubSeq(s, Len(s) - n + 1, Len(s)) ELSE s

\* Mutant: self.threat_log[:1000], the first n entries.
Truncate_first(s) ==
    IF Len(s) > Capacity THEN SubSeq(s, 1, Capacity) ELSE s

\* Mutant: the guard tests len > 1000 but keeps only when len > 1001.
Truncate_late(s) ==
    IF Len(s) > Capacity + 1 THEN LastN(s, Capacity) ELSE s

\* if len(self.threat_log) > 1000: self.threat_log = self.threat_log[-1000:]
Truncate(s) ==
    IF Len(s) > Capacity THEN LastN(s, Capacity) ELSE s

\* A notice given to speak(): the fixed text and what is formatted into it.
Notice(text, what) == <<text, what>>

\* One log_threat call on log `log`: the entry is appended and the log cut
\* back before speak() is reached, so a failing speak() leaves both done.
\* Result: the new log, the notices given to speak(), and whether speak() raised.
LogThreat(log, id, ts, threat_type, details, speak_ok) ==
    LET entry == ThreatEntry(id, ts, threat_type, details)
        alert == entry.severity = "high"
    IN  [log |-> Truncate(Append(log, entry)),
         spoken |-> IF alert /\ speak_ok THEN <<Notice("Security alert", threat_type)>> ELSE <<>>,
         raised |-> alert /\ ~speak_ok]

\* A sequence of log_threat calls made by one handler whose try block ends
\* at the first exception: reqs is a sequence of <<type, details>>.
RECURSIVE LogAll(_, _, _, _, _)
LogAll(log, id, ts, reqs, speak_ok) ==
    IF reqs = <<>> THEN [log |-> log, spoken |-> <<>>, raised |-> FALSE, made |-> 0]
    ELSE LET r == LogThreat(log, id, ts, reqs[1][1], reqs[1][2], speak_ok)
         IN  IF r.raised
             THEN [log |-> r.log, spoken |-> r.spoken, raised |-> TRUE, made |-> 1]
             ELSE LET rest == LogAll(r.log, id + 1, ts, Tail(reqs), speak_ok)
                  IN  [log |-> rest.log,
                       spoken |-> r.spoken \o rest.spoken,
                       raised |-> rest.raised,
                       made |-> 1 + rest.made]

\* The log of a handler that has already logged n threats: n log_threat
\* calls of resource kinds at time 0, before the observed run.
HistoryKind(i) ==
    IF i % 3 = 0 THEN "high_system_cpu"
    ELSE IF i % 3 = 1 THEN "high_system_memory" ELSE "low_disk_space"

History(n) ==
    [i \in 1..n |-> ThreatEntry(i - n, 0, HistoryKind(i), [history |-> i])]

\* The log left by earlier log_threat calls, given as <<time, type>> in call
\* order; the times are before the observed run, which starts at time 0.
Past(calls) ==
    [i \in 1..Len(calls) |->
        ThreatEntry(i - Len(calls), calls[i][1], calls[i][2], [history |-> i])]

\* ------------------------------------------------------------------------
\* Files
\* ------------------------------------------------------------------------

\* datetime.now().strftime('%Y%m%d_%H%M%S')
Stamp(t) == t \div TicksPerSecond

\* A path is its directory, its base name split by os.path.splitext into
\* stem and extension, and the time stamp quarantine_file puts in front of
\* the base name (-1: none).
Path(dir, stem, ext) == [dir |-> dir, stamp |-> -1, stem |-> stem, ext |-> ext]

\* File contents, each with the size in bytes, the Shannon entropy in
\* hundredths of a bit and whether open(path, 'rb') succeeds.
MiB == 1024 * 1024

Contents == {"text", "packed", "eicar", "archive", "locked"}

Size(c) ==
    CASE c = "text"    -> 120
      [] c = "packed"  -> 5 * MiB
      [] c = "eicar"   -> 68
      [] c = "archive" -> 100 * MiB + 1
      [] c = "locked"  -> 100 * MiB

Entropy100(c) ==
    CASE c = "text"    -> 431
      [] c = "packed"  -> 790
      [] c = "eicar"   -> 462
      [] c = "archive" -> 750
      [] c = "locked"  -> 751

Readable(c) == c # "locked"

Exists(files, p) == p \in DOMAIN files

\* Mutant: shutil.copy2(src, dst), src stays.
Move_copy(files, src, dst) ==
    [p \in DOMAIN files \cup {dst} |->
        IF p = dst THEN files[src] ELSE files[p]]

\* shutil.move(src, dst): dst is replaced if it exists, src is gone.
Move(files, src, dst) ==
    [p \in (DOMAIN files \ {src}) \cup {dst} |->
        IF p = dst THEN files[src] ELSE files[p]]

\* A hex digest: hashlib's hexdigest() of algorithm `alg` has 2 * digest_size
\* lower-case hex characters; two digests are equal iff algorithm-independent
\* text is equal, which needs equal length.
HexDigest(alg, c) ==
    [hexlen |-> IF alg = "sha256" THEN 64 ELSE 32, of |-> c, alg |-> alg]

\* calculate_file_hash(file_path, algorithm='sha256'): None when the file
\* cannot be read.
calculate_file_hash(files, p) ==
    IF Readable(files[p]) THEN HexDigest("sha256", files[p])
    ELSE [hexlen |-> 0, of |-> None, alg |-> None]

\* calculate_file_entropy: 0 when the file cannot be read.
calculate_file_entropy(files, p) ==
    IF Readable(files[p]) THEN Entropy100(files[p]) ELSE 0

\* '44d88612fea8a8f36de82e1278abb02f': 32 hex characters, the MD5 digest of
\* the EICAR test file.
known_bad_hashes == {HexDigest("md5", "eicar")}

\* check_hash_reputation: file_hash.lower() in known_bad_hashes; None.lower()
\* raises inside the try block, which returns False.
check_hash_reputation(file_hash) ==
    IF file_hash.alg = None THEN FALSE
    ELSE \E h \in known_bad_hashes :
            h.hexlen = file_hash.hexlen /\ h.of = file_hash.of /\ h.alg = file_hash.alg

Lower(ext) ==
    CASE ext = ".EXE" -> ".exe"
      [] ext = ".Js"  -> ".js"
      [] OTHER        -> ext

suspicious_extensions ==
    {".exe", ".scr", ".bat", ".cmd", ".pif", ".com", ".vbs", ".js"}

LargeFileBytes == 100 * MiB
EntropyThreshold100 == 750

SelectIf(cond, x) == IF cond THEN <<x>> ELSE <<>>

\* Mutant: the checks stop at the first finding.
Findings_first(file_ext, file_size, entropy, file_hash) ==
    IF file_ext \in suspicious_extensions
    THEN <<[type |-> "suspicious_extension", ext |-> file_ext]>>
    ELSE IF file_size > LargeFileBytes
    THEN <<[type |-> "large_file_size", file_size |-> file_size]>>
    ELSE IF entropy > EntropyThreshold100
    THEN <<[type |-> "high_entropy", entropy |-> entropy]>>
    ELSE SelectIf(check_hash_reputation(file_hash), [type |-> "known_malware_hash"])

\* result['threats_found'] after the four checks, each an `if` of its own.
\* A finding is its type and the value its description is formatted from.
Findings(file_ext, file_size, entropy, file_hash) ==
    SelectIf(file_ext \in suspicious_extensions,
             [type |-> "suspicious_extension", ext |-> file_ext])
    \o SelectIf(file_size > LargeFileBytes,
                [type |-> "large_file_size", file_size |-> file_size])
    \o SelectIf(entropy > EntropyThreshold100,
                [type |-> "high_entropy", entropy |-> entropy])
    \o SelectIf(check_hash_reputation(file_hash),
                [type |-> "known_malware_hash"])

\* The body of scan_file_for_threats for an existing path: the result dict.
ScanResult(files, p, ts) ==
    LET file_size == Size(files[p])
        file_hash == calculate_file_hash(files, p)
        file_ext == Lower(p.ext)
        entropy == calculate_file_entropy(files, p)
        threats_found == Findings(file_ext, file_size, entropy, file_hash)
    IN  [file_path |-> p,
         file_size |-> file_size,
         scan_time |-> ts,
         threats_found |-> threats_found,
         is_safe |-> Len(threats_found) = 0,
         file_hash |-> file_hash]

\* ------------------------------------------------------------------------
\* The three checks of a monitoring cycle
\* ------------------------------------------------------------------------

SUSPICIOUS_PROCESSES ==
    {"keylogger", "trojan", "malware", "virus", "backdoor", "rootkit", "spyware"}

baseline_processes ==
    {"explorer.exe", "dwm.exe", "winlogon.exe", "csrss.exe", "lsass.exe",
     "services.exe", "svchost.exe", "chrome.exe", "firefox.exe", "notepad.exe",
     "calculator.exe", "taskmgr.exe", "code.exe", "spotify.exe", "slack.exe",
     "discord.exe", "python.exe", "pythonw.exe", "conhost.exe", "cmd.exe"}

\* Process names of the model; "" is a process psutil reports without a name.
ProcNames == {"chrome.exe", "Trojan.exe", "miner.exe", "Miner.exe", "spyware_keylogger.exe", ""}

\* str.lower() on the names of the model.
LowerName(name) ==
    CASE name = "Trojan.exe" -> "trojan.exe"
      [] name = "Miner.exe"  -> "miner.exe"
      [] OTHER               -> name

\* The terms of SUSPICIOUS_PROCESSES that are substrings of a lower-case name.
TermsIn(lower_name) ==
    CASE lower_name = "trojan.exe"            -> {"trojan"}
      [] lower_name = "spyware_keylogger.exe" -> {"spyware", "keylogger"}
      [] OTHER                                -> {}

ProcInfo(name, cpu, mem, gone) ==
    [name |-> name, cpu_percent |-> cpu, memory_percent |-> mem, gone |-> gone]

\* Mutant: a whitelisted process is not examined at all.
ProcessRequests_whitelist(proc, whitelist) ==
    IF proc.gone \/ proc.name = "" \/ proc.name \in whitelist THEN <<>>
    ELSE SelectIf(TermsIn(LowerName(proc.name)) \cap SUSPICIOUS_PROCESSES # {},
                  <<"suspicious_process", proc>>)
         \o SelectIf(proc.cpu_percent > 90, <<"high_cpu_usage", proc>>)
         \o SelectIf(proc.memory_percent > 50, <<"high_memory_usage", proc>>)

\* What one process of the iteration asks log_threat for, in order.  A
\* process that vanished (psutil.NoSuchProcess, AccessDenied, ZombieProcess)
\* or has no name is skipped.
ProcessRequests(proc, whitelist) ==
    IF proc.gone \/ proc.name = "" THEN <<>>
    ELSE SelectIf(TermsIn(LowerName(proc.name)) \cap SUSPICIOUS_PROCESSES # {},
                  <<"suspicious_process", proc>>)
         \o SelectIf(proc.cpu_percent > 90 /\ proc.name \notin whitelist,
                     <<"high_cpu_usage", proc>>)
         \o SelectIf(proc.memory_percent > 50 /\ proc.name \notin whitelist,
                     <<"high_memory_usage", proc>>)

RECURSIVE ScanRequests(_, _)
ScanRequests(procs, whitelist) ==
    IF procs = <<>> THEN <<>>
    ELSE ProcessRequests(procs[1], whitelist) \o ScanRequests(Tail(procs), whitelist)

\* Mutant: the thresholds of get_system_security_status (80, 85, 90).
ResourceRequests_warn(r) ==
    SelectIf(r.fail_at # 1 /\ r.cpu > 80, <<"high_system_cpu", [cpu_percent |-> r.cpu]>>)
    \o SelectIf(r.fail_at \notin {1, 2} /\ r.memory > 85,
                <<"high_system_memory", [memory_percent |-> r.memory]>>)
    \o SelectIf(r.fail_at \notin {1, 2, 3} /\ r.disk > 90,
                <<"low_disk_space", [disk_percent |-> r.disk]>>)

\* check_system_resources: readings are percentages; fail_at = k > 0 makes
\* the k-th psutil read (cpu, memory, disk, network counters) raise, which
\* ends the try block.
ResourceRequests(r) ==
    SelectIf(r.fail_at # 1 /\ r.cpu > 95, <<"high_system_cpu", [cpu_percent |-> r.cpu]>>)
    \o SelectIf(r.fail_at \notin {1, 2} /\ r.memory > 90,
                <<"high_system_memory", [memory_percent |-> r.memory]>>)
    \o SelectIf(r.fail_at \notin {1, 2, 3} /\ r.disk > 95,
                <<"low_disk_space", [disk_percent |-> r.disk]>>)

suspicious_ports == {1337, 31337, 12345, 54321, 9999}

Conn(status, has_raddr, port, pid) ==
    [status |-> status, has_raddr |-> has_raddr, remote_port |-> port, pid |-> pid]

\* Mutant: the connection's status is not tested.
ConnRequests_anystate(conn) ==
    SelectIf(conn.has_raddr /\ conn.remote_port \in suspicious_ports,
             <<"suspicious_network_connection",
               [remote_port |-> conn.remote_port, pid |-> conn.pid]>>)

ConnRequests(conn) ==
    SelectIf(conn.status = "ESTABLISHED" /\ conn.has_raddr
                /\ conn.remote_port \in suspicious_ports,
             <<"suspicious_network_connection",
               [remote_port |-> conn.remote_port, pid |-> conn.pid]>>)

RECURSIVE NetworkRequests(_)
NetworkRequests(conns) ==
    IF conns = <<>> THEN <<>>
    ELSE ConnRequests(conns[1]) \o NetworkRequests(Tail(conns))

\* ------------------------------------------------------------------------
\* State after construction
\* ------------------------------------------------------------------------

Tasks == 1..MaxTasks

QuarantineDir == [dir |-> "data", stamp |-> -1, stem |-> "quarantine", ext |-> ""]

UserPaths ==
    {Path("docs", "notes", ".txt"), Path("dl", "setup", ".EXE"), Path("tmp", "setup", ".EXE")}

NoOp == [op |-> "__init__", arg |-> None, ret |-> None]

\* Nothing has been scanned, quarantined or whitelisted by a call yet.
\*   scanned      path -> what the last scan of the file returned, kept
\*                while the file at that path is not moved or written
\*   quarantined  the quarantine_file calls that returned True, in order
\*   added        the names add_to_whitelist returned True for and
\*                remove_from_whitelist has not been called with since
NothingObserved ==
    [scanned |-> [q \in {} |-> None], quarantined |-> <<>>, added |-> {}]

\* SecurityHandler.__init__ and load_security_data; `files` is the file
\* system the handler finds, `history` the threats it has logged before the
\* observed run begins and `threads` the threads that are about to call it.
InitWith(files, history, threads) ==
    /\ is_monitoring = FALSE
    /\ monitoring_thread = 0
    /\ threat_log = history
    /\ whitelisted_processes = baseline_processes
    /\ task = [t \in Tasks |-> "none"]
    /\ fs = files
    /\ now = 0
    /\ nlogged = 0
    /\ lastOp = NoOp
    /\ spoken = <<>>
    /\ caller = threads
    /\ pruned = -1
    /\ lastCtl = None
    /\ observed = NothingObserved

OneFile == (Path("dl", "setup", ".EXE") :> "packed")

Init == InitWith(OneFile, <<>>, <<>>)

\* ------------------------------------------------------------------------
\* Operations
\* ------------------------------------------------------------------------

CanLog(k) == nlogged + k <= MaxThreats

\* The log_threat calls `reqs` of one handler, made in order at the current
\* clock value until one raises.
Logged(reqs, speak_ok) == LogAll(threat_log, nlogged + 1, now, reqs, speak_ok)

\* log_threat(threat_type, details) called on the handler.
LogThreatCall(threat_type, speak_ok) ==
    LET r == Logged(<<<<threat_type, [note |-> "direct"]>>>>, speak_ok)
    IN  /\ CanLog(1)
        /\ threat_log' = r.log
        /\ nlogged' = nlogged + r.made
        /\ spoken' = r.spoken
        /\ lastOp' = [op |-> "log_threat", arg |-> threat_type,
                      ret |-> IF r.raised THEN "raised" ELSE None]
        /\ UNCHANGED <<is_monitoring, monitoring_thread, whitelisted_processes,
                       task, fs, observed, now, caller, pruned, lastCtl>>

\* The first thread id not yet used; MaxTasks + 1 when all are used.
FreeTask == IF \E t \in Tasks : task[t] = "none"
            THEN CHOOSE t \in Tasks : task[t] = "none" /\ \A u \in Tasks : u < t => task[u] # "none"
            ELSE MaxTasks + 1

\* Mutant: start_monitoring without the is_monitoring test.
start_monitoring_unguarded(speak_ok) ==
    /\ FreeTask \in Tasks
    /\ is_monitoring' = TRUE
    /\ monitoring_thread' = FreeTask
    /\ task' = [task EXCEPT ![FreeTask] = "loop"]
    /\ spoken' = IF speak_ok THEN <<Notice("Security monitoring activated", "")>> ELSE <<>>
    /\ lastOp' = [op |-> "start_monitoring", arg |-> is_monitoring,
                  ret |-> IF speak_ok THEN "started" ELSE "raised"]
    /\ lastCtl' = "start"
    /\ UNCHANGED <<threat_log, whitelisted_processes, fs, observed, now, nlogged, caller, pruned>>

\* start_monitoring(interval), run without interruption.  lastOp.arg records
\* whether the monitor was running when the call was made.
start_monitoring(speak_ok) ==
    IF is_monitoring
    THEN /\ spoken' = <<>>
         /\ lastOp' = [op |-> "start_monitoring", arg |-> TRUE, ret |-> "already running"]
         /\ lastCtl' = "start"
         /\ UNCHANGED <<is_monitoring, monitoring_thread, threat_log, whitelisted_processes,
                        task, fs, observed, now, nlogged, caller, pruned>>
    ELSE /\ FreeTask \in Tasks
         /\ is_monitoring' = TRUE
         /\ monitoring_thread' = FreeTask
         /\ task' = [task EXCEPT ![FreeTask] = "loop"]
         /\ spoken' = IF speak_ok THEN <<Notice("Security monitoring activated", "")>> ELSE <<>>
         /\ lastOp' = [op |-> "start_monitoring", arg |-> FALSE,
                       ret |-> IF speak_ok THEN "started" ELSE "raised"]
         /\ lastCtl' = "start"
         /\ UNCHANGED <<threat_log, whitelisted_processes, fs, observed, now, nlogged, caller, pruned>>

\* stop_monitoring(): the flag is cleared before speak() is reached.
stop_monitoring(speak_ok) ==
    /\ is_monitoring' = FALSE
    /\ spoken' = IF speak_ok THEN <<Notice("Security monitoring deactivated", "")>> ELSE <<>>
    /\ lastOp' = [op |-> "stop_monitoring", arg |-> is_monitoring,
                  ret |-> IF speak_ok THEN None ELSE "raised"]
    /\ lastCtl' = "stop"
    /\ UNCHANGED <<monitoring_thread, threat_log, whitelisted_processes,
                   task, fs, observed, now, nlogged, caller, pruned>>

\* ------------------------------------------------------------------------
\* The monitoring loop: one thread per launch, a position per thread
\*   "none"       the thread does not exist yet
\*   "loop"       about to evaluate `while self.is_monitoring`
\*   "procs"      in the cycle, about to call scan_running_processes
\*   "resources"  in the cycle, about to call check_system_resources
\*   "network"    in the cycle, about to call monitor_network_connections
\*   "sleep"      in time.sleep(interval)
\*   "done"       the thread has returned
\* Each of the three checks catches every exception itself, so the loop's
\* own except branch (which also sleeps for the interval) is reached from
\* none of them; both branches end in the same sleep.
\* ------------------------------------------------------------------------

InCycle == {"procs", "resources", "network"}
Alive(t) == task[t] \notin {"none", "done"}

\* Mutant: while True.
LoopTarget_forever(flag) == "procs"

\* while self.is_monitoring: where the thread goes from the loop condition.
LoopTarget(flag) == IF flag THEN "procs" ELSE "done"

LoopCheck(t) ==
    /\ task[t] = "loop"
    /\ task' = [task EXCEPT ![t] = LoopTarget(is_monitoring)]
    /\ lastOp' = [op |-> "_monitoring_loop", arg |-> t, ret |-> LoopTarget(is_monitoring)]
    /\ spoken' = <<>>
    /\ UNCHANGED <<is_monitoring, monitoring_thread, threat_log, whitelisted_processes,
                   fs, observed, now, nlogged, caller, pruned, lastCtl>>

\* Mutant: an exception of a check is caught nowhere and ends the thread.
AfterCheck_propagate(next, raised) == IF raised THEN "done" ELSE next

\* Where the thread is after a check: each check ends in its own
\* `except Exception`, so the next statement of the cycle follows whether
\* or not something raised inside the check.
AfterCheck(next, raised) == next

\* The effect of one check of the cycle on the log: its log_threat calls,
\* made until one raises or `fault` (an exception of a psutil read) ends the
\* check.  lastOp keeps what the check was given and whether it raised.
CheckEffect(name, t, next, input, reqs, fault, speak_ok) ==
    LET r == Logged(reqs, speak_ok)
    IN  /\ CanLog(Len(reqs))
        /\ task' = [task EXCEPT ![t] = AfterCheck(next, fault \/ r.raised)]
        /\ threat_log' = r.log
        /\ nlogged' = nlogged + r.made
        /\ spoken' = r.spoken
        /\ lastOp' = [op |-> name, arg |-> t, ret |-> r.made,
                      input |-> input, raised |-> fault \/ r.raised]
        /\ UNCHANGED <<is_monitoring, monitoring_thread, whitelisted_processes,
                       fs, observed, now, caller, pruned, lastCtl>>

\* scan_running_processes() in thread t over the process snapshot procs.
ScanRunningProcesses(t, procs, speak_ok) ==
    /\ task[t] = "procs"
    /\ CheckEffect("scan_running_processes", t, "resources", procs,
                   ScanRequests(procs, whitelisted_processes), FALSE, speak_ok)

\* check_system_resources() in thread t with the readings r.
CheckSystemResources(t, r) ==
    /\ task[t] = "resources"
    /\ CheckEffect("check_system_resources", t, "network", r,
                   ResourceRequests(r), r.fail_at # 0, TRUE)

\* monitor_network_connections() in thread t over the connections conns.
MonitorNetworkConnections(t, conns, speak_ok) ==
    /\ task[t] = "network"
    /\ CheckEffect("monitor_network_connections", t, "sleep", conns,
                   NetworkRequests(conns), FALSE, speak_ok)

\* time.sleep(interval) returns.
Sleep(t) ==
    /\ task[t] = "sleep"
    /\ task' = [task EXCEPT ![t] = "loop"]
    /\ lastOp' = [op |-> "sleep", arg |-> t, ret |-> None]
    /\ spoken' = <<>>
    /\ UNCHANGED <<is_monitoring, monitoring_thread, threat_log, whitelisted_processes,
                   fs, observed, now, nlogged, caller, pruned, lastCtl>>

\* ------------------------------------------------------------------------
\* Status, file scan, quarantine, cleanup
\* ------------------------------------------------------------------------

Count(log, P(_)) == Len(SelectSeq(log, P))

\* Mutant: the disk and threat tests come first, so a later cpu or memory
\* test overwrites 'critical' with 'warning'.
SecurityStatus_downgrade(flag, log, t, r) ==
    LET Recent(e) == e.timestamp > t - 24 * HOUR
        RecentHigh(e) == e.severity = "high" /\ e.timestamp > t - HOUR
        h0 == "good"
        h1 == IF r.disk > 90 THEN "critical" ELSE h0
        h2 == IF Count(log, RecentHigh) > 0 THEN "critical" ELSE h1
        h3 == IF r.cpu > 80 THEN "warning" ELSE h2
        h4 == IF r.memory > 85 THEN "warning" ELSE h3
    IN  [monitoring_active |-> flag,
         recent_threats |-> Count(log, Recent),
         total_threats_logged |-> Len(log),
         last_scan |-> t,
         system_health |-> h4,
         recommendations |->
            SelectIf(r.cpu > 80, "High CPU usage detected")
            \o SelectIf(r.memory > 85, "High memory usage detected")
            \o SelectIf(r.disk > 90, "Low disk space - cleanup recommended")
            \o SelectIf(Count(log, RecentHigh) > 0, "Recent high-severity threats detected")]

\* The status dict of get_system_security_status for the readings r; the
\* health is assigned in the code's order: cpu, memory, disk, recent threats.
SecurityStatus(flag, log, t, r) ==
    LET Recent(e) == e.timestamp > t - 24 * HOUR
        RecentHigh(e) == e.severity = "high" /\ e.timestamp > t - HOUR
        h0 == "good"
        h1 == IF r.cpu > 80 THEN "warning" ELSE h0
        h2 == IF r.memory > 85 THEN "warning" ELSE h1
        h3 == IF r.disk > 90 THEN "critical" ELSE h2
        h4 == IF Count(log, RecentHigh) > 0 THEN "critical" ELSE h3
    IN  [monitoring_active |-> flag,
         recent_threats |-> Count(log, Recent),
         total_threats_logged |-> Len(log),
         last_scan |-> t,
         system_health |-> h4,
         recommendations |->
            SelectIf(r.cpu > 80, "High CPU usage detected")
            \o SelectIf(r.memory > 85, "High memory usage detected")
            \o SelectIf(r.disk > 90, "Low disk space - cleanup recommended")
            \o SelectIf(Count(log, RecentHigh) > 0, "Recent high-severity threats detected")]

\* Mutant: the status reports that a monitoring thread object exists.
StatusOf_thread(r) ==
    IF r.fail_at \in {1, 2, 3} THEN [error |-> "psutil"]
    ELSE SecurityStatus(monitoring_thread # 0, threat_log, now, r)

\* What get_system_security_status returns: the status, or {'error': ...}
\* when one of its three psutil reads raises.
StatusOf(r) ==
    IF r.fail_at \in {1, 2, 3} THEN [error |-> "psutil"]
    ELSE SecurityStatus(is_monitoring, threat_log, now, r)

GetSystemSecurityStatus(r) ==
    /\ lastOp' = [op |-> "get_system_security_status", arg |-> r, ret |-> StatusOf(r)]
    /\ spoken' = <<>>
    /\ UNCHANGED <<is_monitoring, monitoring_thread, threat_log, whitelisted_processes,
                   task, fs, observed, now, nlogged, caller, pruned, lastCtl>>

\* f with x mapped to v.
Put(f, x, v) == [q \in DOMAIN f \cup {x} |-> IF q = x THEN v ELSE f[q]]

\* f without x.
Drop(f, x) == [q \in DOMAIN f \ {x} |-> f[q]]

\* Mutant: an entry exactly at the cutoff counts as recent.
InWindow_inclusive(e, t, hours) == e.timestamp >= t - hours * HOUR

\* datetime.fromisoformat(threat['timestamp']) > cutoff_time
InWindow(e, t, hours) == e.timestamp > t - hours * HOUR

\* The summary dict of get_threat_summary(hours) at time t.
ThreatSummary(log, t, hours) ==
    LET Inside(e) == InWindow(e, t, hours)
        recent_threats == SelectSeq(log, Inside)
        High(e) == e.severity = "high"
        Medium(e) == e.severity = "medium"
        Low(e) == e.severity = "low"
        types == {recent_threats[i].type : i \in DOMAIN recent_threats}
    IN  [total_threats |-> Len(recent_threats),
         high_severity |-> Count(recent_threats, High),
         medium_severity |-> Count(recent_threats, Medium),
         low_severity |-> Count(recent_threats, Low),
         threat_types |->
            [k \in types |->
                Cardinality({i \in DOMAIN recent_threats : recent_threats[i].type = k})],
         time_period |-> <<"Last", hours, "hours">>]

GetThreatSummary(hours) ==
    /\ lastOp' = [op |-> "get_threat_summary", arg |-> hours,
                  ret |-> ThreatSummary(threat_log, now, hours)]
    /\ spoken' = <<>>
    /\ UNCHANGED <<is_monitoring, monitoring_thread, threat_log, whitelisted_processes,
                   task, fs, observed, now, nlogged, caller, pruned, lastCtl>>

\* The file name export_threat_log writes to: the given one, or
\* threat_log_<strftime of now>.json; always joined to LOGS_DIR.
ExportPath(filename, t) ==
    IF filename = None
    THEN [dir |-> "logs", stamp |-> Stamp(t), stem |-> "threat_log", ext |-> ".json"]
    ELSE [dir |-> "logs", stamp |-> -1, stem |-> filename, ext |-> ""]

\* What json.dump writes for one entry: the four keys log_threat stores.
Exported(e) ==
    [timestamp |-> e.timestamp, type |-> e.type,
     details |-> e.details, severity |-> e.severity]

\* Mutant: only the entries of the last 24 hours are written.
ExportSnapshot_recent(log, t) ==
    LET Recent(e) == e.timestamp > t - 24 * HOUR
        kept == SelectSeq(log, Recent)
    IN  [i \in 1..Len(kept) |-> Exported(kept[i])]

\* json.dump(self.threat_log, f, indent=2): every entry, in list order.
ExportSnapshot(log, t) == [i \in 1..Len(log) |-> Exported(log[i])]

\* export_threat_log(filename): the file is written and its path returned,
\* or None when open() raises.
ExportThreatLog(filename, open_ok) ==
    LET filepath == ExportPath(filename, now)
    IN  /\ fs' = IF open_ok
                 THEN Put(fs, filepath, [json |-> ExportSnapshot(threat_log, now)])
                 ELSE fs
        /\ lastOp' = [op |-> "export_threat_log", arg |-> filename,
                      ret |-> IF open_ok THEN filepath ELSE None,
                      raised |-> ~open_ok]
        /\ spoken' = <<>>
        /\ UNCHANGED <<is_monitoring, monitoring_thread, threat_log, whitelisted_processes,
                       task, observed, now, nlogged, caller, pruned, lastCtl>>

NotFound == [error |-> "File not found"]

\* Mutant: no existence test; a missing path is reported as an unsafe file.
ScanOutcome_nocheck(files, p, ts) ==
    IF Exists(files, p) THEN ScanResult(files, p, ts)
    ELSE [file_path |-> p, file_size |-> 0, scan_time |-> ts,
          threats_found |-> <<[type |-> "unreadable"]>>, is_safe |-> FALSE,
          file_hash |-> [hexlen |-> 0, of |-> None, alg |-> None]]

\* Mutant: a file already reported in the threat log is not reported again.
ScanOutcome_fresh(files, p, ts) ==
    IF ~Exists(files, p) THEN NotFound
    ELSE IF \E i \in 1..Len(threat_log) :
                /\ threat_log[i].type = "file_threat_detected"
                /\ threat_log[i].details.file_path = p
         THEN [ScanResult(files, p, ts) EXCEPT !.threats_found = <<>>, !.is_safe = TRUE]
         ELSE ScanResult(files, p, ts)

\* What scan_file_for_threats returns.
ScanOutcome(files, p, ts) ==
    IF ~Exists(files, p) THEN NotFound ELSE ScanResult(files, p, ts)

IsError(ret) == "error" \in DOMAIN ret

\* Mutant: every completed scan is logged.
ScanLogRequests_always(result) ==
    IF IsError(result) THEN <<>> ELSE <<<<"file_threat_detected", result>>>>

\* if not result['is_safe']: self.log_threat('file_threat_detected', result)
ScanLogRequests(result) ==
    IF IsError(result) \/ result.is_safe THEN <<>>
    ELSE <<<<"file_threat_detected", result>>>>

\* What a scan of an existing path found out about the file.
ScanSummary(files, p, result) ==
    [file_hash |-> result.file_hash,
     entropy |-> IF Exists(files, p) THEN calculate_file_entropy(files, p) ELSE 0,
     threats_found |-> result.threats_found,
     is_safe |-> result.is_safe]

\* scan_file_for_threats(file_path): an unsafe result is logged with the
\* result as details (file_threat_detected is a low kind: no speak()).
ScanFileForThreats(p) ==
    LET result == ScanOutcome(fs, p, now)
        reqs == ScanLogRequests(result)
        r == Logged(reqs, TRUE)
    IN  /\ CanLog(Len(reqs))
        /\ threat_log' = r.log
        /\ nlogged' = nlogged + r.made
        /\ spoken' = r.spoken
        /\ lastOp' = [op |-> "scan_file_for_threats", arg |-> p, ret |-> result]
        /\ observed' = IF IsError(result) THEN observed
                       ELSE [observed EXCEPT
                                !.scanned = Put(@, p, ScanSummary(fs, p, result))]
        /\ UNCHANGED <<is_monitoring, monitoring_thread, whitelisted_processes,
                       task, fs, now, caller, pruned, lastCtl>>

QuarantinePath(p, t) ==
    [dir |-> "data/quarantine", stamp |-> Stamp(t), stem |-> p.stem, ext |-> p.ext]

\* os.makedirs(quarantine_dir) when it does not exist.
WithQuarantineDir(files) ==
    IF Exists(files, QuarantineDir) THEN files
    ELSE [p \in DOMAIN files \cup {QuarantineDir} |->
            IF p = QuarantineDir THEN "directory" ELSE files[p]]

\* Mutant: the quarantine directory is made before the path is tested.
QuarantineFs_mkdir(files, p, dst, move_ok) ==
    IF ~Exists(files, p) THEN WithQuarantineDir(files)
    ELSE IF move_ok THEN Move(WithQuarantineDir(files), p, dst)
    ELSE WithQuarantineDir(files)

\* The file system quarantine_file leaves: untouched when the path does not
\* exist, else with the quarantine directory and, unless shutil.move raises,
\* the file moved.
QuarantineFs(files, p, dst, move_ok) ==
    IF ~Exists(files, p) THEN files
    ELSE IF move_ok THEN Move(WithQuarantineDir(files), p, dst)
    ELSE WithQuarantineDir(files)

\* quarantine_file(file_path).  move_ok = FALSE: shutil.move raises.  The
\* entry is logged before speak() is reached; file_quarantined is a low kind.
QuarantineFile(p, move_ok, speak_ok) ==
    LET dst == QuarantinePath(p, now)
        info == [original_path |-> p, quarantine_path |-> dst, quarantined_at |-> now]
        moved == Exists(fs, p) /\ move_ok
        reqs == IF moved THEN <<<<"file_quarantined", info>>>> ELSE <<>>
        r == Logged(reqs, TRUE)
        done == [original_path |-> p, quarantine_path |-> dst, content |-> fs[p]]
    IN  /\ CanLog(Len(reqs))
        /\ fs' = QuarantineFs(fs, p, dst, move_ok)
        /\ threat_log' = r.log
        /\ nlogged' = nlogged + r.made
        /\ spoken' = IF moved /\ speak_ok
                     THEN <<Notice("Suspicious file quarantined", p.stem)>> ELSE <<>>
        /\ lastOp' = [op |-> "quarantine_file", arg |-> p, ret |-> moved /\ speak_ok]
        /\ observed' = IF ~moved THEN observed
                       ELSE [observed EXCEPT
                                !.scanned = Drop(@, p),
                                !.quarantined = IF speak_ok THEN Append(@, done) ELSE @]
        /\ UNCHANGED <<is_monitoring, monitoring_thread, whitelisted_processes,
                       task, now, caller, pruned, lastCtl>>

\* Another program writes the file at path p: the file is created, or its
\* content replaced.
WriteFile(p, c) ==
    /\ fs' = Put(fs, p, c)
    /\ observed' = [observed EXCEPT !.scanned = Drop(@, p)]
    /\ lastOp' = [op |-> "write", arg |-> p, ret |-> None]
    /\ spoken' = <<>>
    /\ UNCHANGED <<is_monitoring, monitoring_thread, threat_log, whitelisted_processes,
                   task, now, nlogged, caller, pruned, lastCtl>>

\* add_to_whitelist(process_name): the lower-cased name is added before
\* speak() is reached; the call returns False when speak() raises.
add_to_whitelist(process_name, speak_ok) ==
    /\ whitelisted_processes' = whitelisted_processes \cup {LowerName(process_name)}
    /\ spoken' = IF speak_ok
                 THEN <<Notice("added to security whitelist", process_name)>> ELSE <<>>
    /\ lastOp' = [op |-> "add_to_whitelist", arg |-> process_name, ret |-> speak_ok]
    /\ observed' = IF speak_ok
                   THEN [observed EXCEPT !.added = @ \cup {process_name}]
                   ELSE observed
    /\ UNCHANGED <<is_monitoring, monitoring_thread, threat_log, task, fs, now,
                   nlogged, caller, pruned, lastCtl>>

\* remove_from_whitelist(process_name): the lower-cased name is removed if it
\* is there, else the call returns False.
remove_from_whitelist(process_name, speak_ok) ==
    LET present == LowerName(process_name) \in whitelisted_processes
    IN  /\ whitelisted_processes' = whitelisted_processes \ {LowerName(process_name)}
        /\ spoken' = IF present /\ speak_ok
                     THEN <<Notice("removed from security whitelist", process_name)>>
                     ELSE <<>>
        /\ lastOp' = [op |-> "remove_from_whitelist", arg |-> process_name,
                      ret |-> present /\ speak_ok]
        /\ observed' = [observed EXCEPT
                            !.added = {n \in @ : LowerName(n) # LowerName(process_name)}]
        /\ UNCHANGED <<is_monitoring, monitoring_thread, threat_log, task, fs, now,
                       nlogged, caller, pruned, lastCtl>>

Max(a, b) == IF a > b THEN a ELSE b

\* Mutant: an entry exactly at the cutoff is kept.
Kept_inclusive(log, t, days_old) ==
    LET Fresh(e) == e.timestamp >= t - days_old * DAY
    IN  SelectSeq(log, Fresh)

\* The entries cleanup_threat_log(days_old) keeps at time t.
Kept(log, t, days_old) ==
    LET Fresh(e) == e.timestamp > t - days_old * DAY
    IN  SelectSeq(log, Fresh)

\* cleanup_threat_log(days_old), run without interruption.
CleanupThreatLog(days_old) ==
    /\ threat_log' = Kept(threat_log, now, days_old)
    /\ pruned' = Max(pruned, now - days_old * DAY)
    /\ spoken' = <<>>
    /\ lastOp' = [op |-> "cleanup_threat_log", arg |-> days_old,
                  ret |-> Len(threat_log) - Len(Kept(threat_log, now, days_old))]
    /\ UNCHANGED <<is_monitoring, monitoring_thread, whitelisted_processes,
                   task, fs, observed, now, nlogged, caller, lastCtl>>

\* The clock advances to a later point of `points`.
Tick(points) ==
    /\ \E t \in points : t > now /\ now' = t
    /\ lastOp' = [op |-> "tick", arg |-> None, ret |-> None]
    /\ spoken' = <<>>
    /\ UNCHANGED <<is_monitoring, monitoring_thread, threat_log, whitelisted_processes,
                   task, fs, observed, nlogged, caller, pruned, lastCtl>>

\* Inputs of the checks.
Readings(cpu, memory, disk, fail_at) ==
    [cpu |-> cpu, memory |-> memory, disk |-> disk, fail_at |-> fail_at]

QuietReadings == Readings(10, 20, 30, 0)

SomeSnapshots ==
    {<<>>,
     <<ProcInfo("Trojan.exe", 5, 5, FALSE)>>,
     <<ProcInfo("miner.exe", 91, 51, FALSE)>>}

SomeReadings == {QuietReadings, Readings(96, 20, 30, 0), Readings(96, 91, 96, 3)}

SomeConns == {<<>>, <<Conn("ESTABLISHED", TRUE, 1337, 7)>>}

\* One step of thread t, with the inputs of its checks drawn from the given
\* sets (oks: whether speak() returns).
TaskStep(t, snapshots, readings, connections, oks) ==
    \/ LoopCheck(t)
    \/ \E procs \in snapshots, ok \in oks : ScanRunningProcesses(t, procs, ok)
    \/ \E r \in readings : CheckSystemResources(t, r)
    \/ \E conns \in connections, ok \in oks : MonitorNetworkConnections(t, conns, ok)
    \/ Sleep(t)

StartMonitoring == \E ok \in BOOLEAN : start_monitoring(ok)
StopMonitoring == \E ok \in BOOLEAN : stop_monitoring(ok)
Monitor == \E t \in Tasks : TaskStep(t, SomeSnapshots, SomeReadings, SomeConns, BOOLEAN)

StatusReadings ==
    {QuietReadings, Readings(81, 20, 91, 0), Readings(10, 20, 30, 2)}

Status == \E r \in StatusReadings : GetSystemSecurityStatus(r)

\* The engine's lifecycle: start, stop, the monitoring threads, status queries.
Next ==
    \/ StartMonitoring
    \/ StopMonitoring
    \/ Monitor
    \/ Status

Spec == Init /\ [][Next]_vars

\* The lifecycle with the scheduling the threads get: a monitoring thread
\* that can take a step (its reads return, its sleep ends) eventually does.
LiveStep(t) == TaskStep(t, {<<>>}, SomeReadings, SomeConns, {TRUE})

NextLive ==
    \/ StartMonitoring
    \/ StopMonitoring
    \/ \E t \in Tasks : LiveStep(t)

SpecLive ==
    Init /\ [][NextLive]_vars /\ \A t \in Tasks : WF_vars(LiveStep(t))

\* ------------------------------------------------------------------------
\* The threat log at its capacity: a handler that has logged
\* Capacity - Headroom threats before, and every writer of the log.
\* ------------------------------------------------------------------------

InitLog == InitWith(OneFile, History(Capacity - Headroom), <<>>)

SomeKinds == {"malware_detected", "high_cpu_usage", "port_scan"}

LogThreatSome == \E k \in SomeKinds : LogThreatCall(k, TRUE)
ScanFile == \E p \in DOMAIN OneFile : ScanFileForThreats(p)
Quarantine == \E p \in DOMAIN OneFile : QuarantineFile(p, TRUE, TRUE)

StartLogMonitor == start_monitoring(TRUE)
LogMonitor ==
    \E t \in Tasks :
        TaskStep(t, {<<>>, <<ProcInfo("miner.exe", 91, 51, FALSE)>>}, SomeReadings, SomeConns, {TRUE})

NextLog ==
    \/ LogThreatSome
    \/ ScanFile
    \/ Quarantine
    \/ StartLogMonitor
    \/ LogMonitor

SpecLog == InitLog /\ [][NextLog]_vars

\* ------------------------------------------------------------------------
\* The threat log of a new handler: every kind logged, cleanup, the clock.
\* ------------------------------------------------------------------------

ThreatTimes == {0, 1, DAY + 1}

LogThreatAny == \E k \in ThreatKinds, ok \in BOOLEAN : LogThreatCall(k, ok)
Cleanup == \E d \in {0, 1, 30} : CleanupThreatLog(d)
ThreatClock == Tick(ThreatTimes)

NextThreats ==
    \/ LogThreatAny
    \/ ScanFile
    \/ Cleanup
    \/ ThreatClock

SpecThreats == Init /\ [][NextThreats]_vars

\* ------------------------------------------------------------------------
\* File operations on a small file system
\* ------------------------------------------------------------------------

FileSystems ==
    {OneFile,
     (Path("dl", "setup", ".EXE") :> "eicar") @@ (Path("docs", "notes", ".txt") :> "text"),
     (Path("tmp", "setup", ".EXE") :> "archive") @@ (Path("docs", "notes", ".txt") :> "locked"),
     (Path("dl", "setup", ".EXE") :> "packed") @@ (Path("tmp", "setup", ".EXE") :> "text")}

InitFiles == \E files \in FileSystems : InitWith(files, <<>>, <<>>)

TimePoints == {0, 1, 2}

ScanAnyFile == \E p \in UserPaths : ScanFileForThreats(p)
QuarantineAnyFile ==
    \E p \in UserPaths, mv \in BOOLEAN, ok \in BOOLEAN : QuarantineFile(p, mv, ok)
Clock == Tick(TimePoints)
\* A path that quarantine_file has emptied is written again.
WriteAnyFile ==
    \E i \in 1..Len(observed.quarantined) :
        /\ ~Exists(fs, observed.quarantined[i].original_path)
        /\ WriteFile(observed.quarantined[i].original_path, "text")

NextFiles ==
    \/ ScanAnyFile
    \/ QuarantineAnyFile
    \/ WriteAnyFile
    \/ Clock

SpecFiles == InitFiles /\ [][NextFiles]_vars

\* ------------------------------------------------------------------------
\* The whitelist: names added and removed while the monitor scans processes
\* ------------------------------------------------------------------------

WhitelistNames == {"Miner.exe", "miner.exe", "chrome.exe"}

BusySnapshots ==
    {<<ProcInfo("Miner.exe", 91, 51, FALSE)>>,
     <<ProcInfo("miner.exe", 91, 20, FALSE)>>,
     <<ProcInfo("chrome.exe", 95, 60, FALSE)>>}

AddToWhitelist == \E n \in WhitelistNames, ok \in BOOLEAN : add_to_whitelist(n, ok)
RemoveFromWhitelist == \E n \in WhitelistNames, ok \in BOOLEAN : remove_from_whitelist(n, ok)
StartWhitelistMonitor == start_monitoring(TRUE)
WhitelistMonitor ==
    \E t \in Tasks : TaskStep(t, BusySnapshots, {QuietReadings}, {<<>>}, {TRUE})

NextWhitelist ==
    \/ AddToWhitelist
    \/ RemoveFromWhitelist
    \/ StartWhitelistMonitor
    \/ WhitelistMonitor

SpecWhitelist == Init /\ [][NextWhitelist]_vars

\* ------------------------------------------------------------------------
\* The three checks on many inputs, with the faults they can meet: a psutil
\* read that raises, a process that is gone, a speak() that raises.  The
\* monitoring threads are scheduled fairly.
\* ------------------------------------------------------------------------

CheckSnapshots ==
    {<<>>,
     <<ProcInfo("Trojan.exe", 5, 5, FALSE)>>,
     <<ProcInfo("Trojan.exe", 95, 60, TRUE)>>,
     <<ProcInfo("spyware_keylogger.exe", 91, 50, FALSE)>>,
     <<ProcInfo("trojan.exe", 91, 5, FALSE)>>,
     <<ProcInfo("miner.exe", 91, 51, FALSE)>>,
     <<ProcInfo("miner.exe", 90, 50, FALSE)>>,
     <<ProcInfo("chrome.exe", 95, 60, FALSE)>>,
     <<ProcInfo("", 95, 60, FALSE)>>,
     <<ProcInfo("Trojan.exe", 5, 5, FALSE), ProcInfo("miner.exe", 5, 51, FALSE)>>}

CheckReadings ==
    {QuietReadings,
     Readings(95, 90, 95, 0), Readings(90, 88, 93, 0),
     Readings(90, 20, 30, 0), Readings(20, 88, 93, 0),
     Readings(96, 20, 30, 0), Readings(20, 91, 30, 0), Readings(20, 20, 96, 0),
     Readings(96, 91, 30, 0), Readings(96, 91, 96, 0),
     Readings(96, 91, 96, 1), Readings(96, 91, 96, 2), Readings(96, 20, 96, 3),
     Readings(20, 91, 96, 4)}

CheckConns ==
    {<<>>,
     <<Conn("ESTABLISHED", TRUE, 1337, 7)>>,
     <<Conn("ESTABLISHED", TRUE, 443, 7)>>,
     <<Conn("ESTABLISHED", FALSE, 1337, 7)>>,
     <<Conn("LISTEN", FALSE, 31337, 7)>>,
     <<Conn("TIME_WAIT", TRUE, 31337, 8)>>,
     <<Conn("ESTABLISHED", TRUE, 9999, 7), Conn("ESTABLISHED", TRUE, 80, 9)>>,
     <<Conn("ESTABLISHED", TRUE, 12345, 7), Conn("ESTABLISHED", TRUE, 54321, 9)>>}

CheckStep(t) == TaskStep(t, CheckSnapshots, CheckReadings, CheckConns, BOOLEAN)

StartChecks == start_monitoring(TRUE)
WhitelistTrojan == add_to_whitelist("trojan.exe", TRUE)

NextChecks ==
    \/ StartChecks
    \/ WhitelistTrojan
    \/ \E t \in Tasks : CheckStep(t)

SpecChecks ==
    Init /\ [][NextChecks]_vars /\ \A t \in Tasks : WF_vars(CheckStep(t))

\* ------------------------------------------------------------------------
\* Reports: status, summary and export of a log that holds entries of every
\* severity, old and new, while the clock passes the one-hour and the
\* 24-hour marks.
\* ------------------------------------------------------------------------

\* Five entries from two days ago, then two high and one medium at time 0.
EarlierCalls ==
    <<<<-2 * DAY, "low_disk_space">>, <<-2 * DAY, "high_system_cpu">>,
      <<-2 * DAY, "suspicious_process">>, <<-2 * DAY, "high_cpu_usage">>,
      <<-2 * DAY, "low_disk_space">>,
      <<0, "suspicious_process">>, <<0, "malware_detected">>, <<0, "high_cpu_usage">>>>

InitReports == InitWith(OneFile, Past(EarlierCalls), <<>>)

ReportTimes == {0, HOUR, DAY}
ReportKinds == {"suspicious_process", "low_disk_space"}

\* Every combination of readings just at and just above the three limits.
ReportReadings ==
    {Readings(c, m, d, 0) : c \in {80, 81}, m \in {85, 86}, d \in {90, 91}}
    \cup {Readings(81, 86, 96, 0), Readings(80, 85, 96, 0), Readings(81, 86, 96, 2)}

LogReported == \E k \in ReportKinds : LogThreatCall(k, TRUE)
ReportStatus == \E r \in ReportReadings : GetSystemSecurityStatus(r)
ReportSummary == \E hours \in {0, 1, 24} : GetThreatSummary(hours)
\* One export per run, under the default or a given name.
ReportExport ==
    /\ \A p \in DOMAIN fs : p.dir # "logs"
    /\ \E filename \in {None, "export.json"}, ok \in BOOLEAN :
            ExportThreatLog(filename, ok)
ReportClock == Tick(ReportTimes)
StartReports == start_monitoring(TRUE)

NextReports ==
    \/ LogReported
    \/ ReportStatus
    \/ ReportSummary
    \/ ReportExport
    \/ ReportClock
    \/ StartReports

SpecReports == InitReports /\ [][NextReports]_vars

\* ------------------------------------------------------------------------
\* Interleavings.  The handler holds no lock: a thread inside
\* start_monitoring, log_threat or cleanup_threat_log can be preempted
\* between any two reads or writes of the handler's attributes.  A thread of
\* `caller` is any thread executing such a call: a caller of the public
\* functions, or for log_threat also a monitoring thread inside one of its
\* checks.  Each thread makes one call; its record keeps the call's locals.
\*   pc     "idle", a position inside the call, or "returned"
\*   op     the method called
\*   entry  log_threat: the entry it made
\*   tmp    log_threat: the slice read for the assignment;
\*          cleanup_threat_log: the filtered list read for the assignment
\*   cutoff cleanup_threat_log: cutoff_date
\* list.append is one atomic step; the list comprehension of
\* cleanup_threat_log is taken as one read of the list.
\* ------------------------------------------------------------------------

Callers == 1..MaxCallers

NoEntry == ThreatEntry(0, -1, None, [note |-> None])

IdleThread == [pc |-> "idle", op |-> None, entry |-> NoEntry, tmp |-> <<>>, cutoff |-> -1]

raceFrame == <<whitelisted_processes, fs, observed, now, spoken, lastCtl>>

\* start_monitoring: `if self.is_monitoring`
StartCheck(c) ==
    /\ caller[c].pc = "idle"
    /\ caller' = [caller EXCEPT ![c].op = "start_monitoring",
                                ![c].pc = IF is_monitoring THEN "returned" ELSE "start:set"]
    /\ lastOp' = [op |-> "start_monitoring:check", arg |-> c, ret |-> is_monitoring]
    /\ UNCHANGED <<is_monitoring, monitoring_thread, threat_log, task, nlogged, pruned>>
    /\ UNCHANGED raceFrame

\* start_monitoring: `self.is_monitoring = True`
StartSet(c) ==
    /\ caller[c].pc = "start:set"
    /\ is_monitoring' = TRUE
    /\ caller' = [caller EXCEPT ![c].pc = "start:spawn"]
    /\ lastOp' = [op |-> "start_monitoring:set", arg |-> c, ret |-> None]
    /\ UNCHANGED <<monitoring_thread, threat_log, task, nlogged, pruned>>
    /\ UNCHANGED raceFrame

\* start_monitoring: the thread is created, stored and started.
StartSpawn(c) ==
    /\ caller[c].pc = "start:spawn"
    /\ FreeTask \in Tasks
    /\ monitoring_thread' = FreeTask
    /\ task' = [task EXCEPT ![FreeTask] = "loop"]
    /\ caller' = [caller EXCEPT ![c].pc = "returned"]
    /\ lastOp' = [op |-> "start_monitoring:spawn", arg |-> c, ret |-> FreeTask]
    /\ UNCHANGED <<is_monitoring, threat_log, nlogged, pruned>>
    /\ UNCHANGED raceFrame

\* log_threat: the entry is built and `self.threat_log.append(threat_entry)`
LogAppend(c, threat_type) ==
    LET entry == ThreatEntry(nlogged + 1, now, threat_type, [note |-> "direct"])
    IN  /\ caller[c].pc = "idle"
        /\ CanLog(1)
        /\ threat_log' = Append(threat_log, entry)
        /\ nlogged' = nlogged + 1
        /\ caller' = [caller EXCEPT ![c].op = "log_threat", ![c].pc = "log:check",
                                    ![c].entry = entry]
        /\ lastOp' = [op |-> "log_threat:append", arg |-> c, ret |-> None]
        /\ UNCHANGED <<is_monitoring, monitoring_thread, task, pruned>>
        /\ UNCHANGED raceFrame

\* log_threat: `if len(self.threat_log) > 1000`
LogCheck(c) ==
    /\ caller[c].pc = "log:check"
    /\ caller' = [caller EXCEPT ![c].pc = IF Len(threat_log) > Capacity
                                          THEN "log:slice" ELSE "returned"]
    /\ lastOp' = [op |-> "log_threat:check", arg |-> c, ret |-> Len(threat_log)]
    /\ UNCHANGED <<is_monitoring, monitoring_thread, threat_log, task, nlogged, pruned>>
    /\ UNCHANGED raceFrame

\* log_threat: the right-hand side `self.threat_log[-1000:]`
LogSlice(c) ==
    /\ caller[c].pc = "log:slice"
    /\ caller' = [caller EXCEPT ![c].pc = "log:assign",
                                ![c].tmp = LastN(threat_log, Capacity)]
    /\ lastOp' = [op |-> "log_threat:slice", arg |-> c, ret |-> None]
    /\ UNCHANGED <<is_monitoring, monitoring_thread, threat_log, task, nlogged, pruned>>
    /\ UNCHANGED raceFrame

\* log_threat: the assignment `self.threat_log = ...`
LogAssign(c) ==
    /\ caller[c].pc = "log:assign"
    /\ threat_log' = caller[c].tmp
    /\ caller' = [caller EXCEPT ![c].pc = "returned", ![c].tmp = <<>>]
    /\ lastOp' = [op |-> "log_threat:assign", arg |-> c, ret |-> None]
    /\ UNCHANGED <<is_monitoring, monitoring_thread, task, nlogged, pruned>>
    /\ UNCHANGED raceFrame

\* cleanup_threat_log: cutoff_date, original_count and the list comprehension
CleanupRead(c, days_old) ==
    /\ caller[c].pc = "idle"
    /\ caller' = [caller EXCEPT ![c].op = "cleanup_threat_log", ![c].pc = "cleanup:assign",
                                ![c].tmp = Kept(threat_log, now, days_old),
                                ![c].cutoff = now - days_old * DAY]
    /\ lastOp' = [op |-> "cleanup_threat_log:read", arg |-> c, ret |-> Len(threat_log)]
    /\ UNCHANGED <<is_monitoring, monitoring_thread, threat_log, task, nlogged, pruned>>
    /\ UNCHANGED raceFrame

\* cleanup_threat_log: the assignment `self.threat_log = [...]`
CleanupAssign(c) ==
    /\ caller[c].pc = "cleanup:assign"
    /\ threat_log' = caller[c].tmp
    /\ pruned' = Max(pruned, caller[c].cutoff)
    /\ caller' = [caller EXCEPT ![c].pc = "returned", ![c].tmp = <<>>]
    /\ lastOp' = [op |-> "cleanup_threat_log:assign", arg |-> c, ret |-> None]
    /\ UNCHANGED <<is_monitoring, monitoring_thread, task, nlogged>>
    /\ UNCHANGED raceFrame

RaceKinds == {"high_system_cpu", "suspicious_process"}

ThreadStep(c) ==
    \/ StartCheck(c)
    \/ StartSet(c)
    \/ StartSpawn(c)
    \/ \E k \in RaceKinds : LogAppend(c, k)
    \/ LogCheck(c)
    \/ LogSlice(c)
    \/ LogAssign(c)
    \/ \E d \in {0, 30} : CleanupRead(c, d)
    \/ CleanupAssign(c)

\* A status query made while the threads are inside their calls; it reads
\* len(self.threat_log) once.
RaceStatus == GetSystemSecurityStatus(QuietReadings)

NextRace ==
    \/ \E c \in Callers : ThreadStep(c)
    \/ RaceStatus

InitRace ==
    \E history \in {<<>>, History(Capacity - Headroom)} :
        InitWith(OneFile, history, [c \in Callers |-> IdleThread])

SpecRace == InitRace /\ [][NextRace]_vars

\* ------------------------------------------------------------------------
\* Properties
\* ------------------------------------------------------------------------

\* C1: after any sequence of log_threat calls (direct, from the monitoring
\* loop, from scan_file_for_threats, from quarantine_file) the threat log
\* holds at most 1000 entries.
C1_LogWithinCapacity == Len(threat_log) <= 1000

\* More threats were logged than the log had room for, and it is full.
C1_Witness == Len(threat_log) = 1000 /\ nlogged > Headroom

\* C2: eviction is FIFO.  A step that makes k >= 1 log_threat calls on a log
\* holding 1000 entries leaves the previous log without its k oldest
\* entries, in the same order, followed by the k new entries in call order.
C2_FifoEviction ==
    [][(Len(threat_log) = 1000 /\ nlogged' > nlogged) =>
        LET k == nlogged' - nlogged
        IN  /\ Len(threat_log') = 1000
            /\ \A i \in 1..(1000 - k) : threat_log'[i] = threat_log[i + k]
            /\ \A j \in 1..k : threat_log'[1000 - k + j].id = nlogged + j]_vars

\* The oldest entry has been evicted and the newest entry is the last one.
C2_Witness ==
    /\ Len(threat_log) = 1000
    /\ nlogged > Headroom
    /\ threat_log[1000].id = nlogged
    /\ threat_log[1].id = nlogged - 999

\* C3: every entry of the log carries the severity of the fixed table for
\* its kind, unknown kinds are low, and get_threat_severity answers for
\* every kind.
C3_SeverityTable ==
    /\ \A i \in 1..Len(threat_log) :
        LET e == threat_log[i]
        IN  /\ e.type \in {"suspicious_process", "malware_detected", "unauthorized_access",
                           "suspicious_network_connection"} => e.severity = "high"
            /\ e.type \in {"high_cpu_usage", "high_memory_usage", "unusual_file_activity"}
                    => e.severity = "medium"
            /\ e.type \notin {"suspicious_process", "malware_detected", "unauthorized_access",
                              "suspicious_network_connection", "high_cpu_usage",
                              "high_memory_usage", "unusual_file_activity"}
                    => e.severity = "low"
    /\ \A k \in ThreatKinds : get_threat_severity(k) \in {"high", "medium", "low"}
    /\ \A k \in {"file_threat_detected", "file_quarantined", "high_system_cpu",
                 "high_system_memory", "low_disk_space", "port_scan"} :
            get_threat_severity(k) = "low"

\* The log holds an entry of a kind of the high table and an entry of a
\* kind that no table knows.
C3_Witness ==
    /\ \E i \in 1..Len(threat_log) :
            threat_log[i].type = "unauthorized_access" /\ threat_log[i].severity = "high"
    /\ \E i \in 1..Len(threat_log) :
            threat_log[i].type = "port_scan" /\ threat_log[i].severity = "low"

\* C4: start_monitoring called while the monitor is running launches no
\* thread, leaves is_monitoring true and leaves monitoring_thread unchanged.
C4_StartWhileRunningIsNoOp ==
    [][(lastOp'.op = "start_monitoring" /\ is_monitoring) =>
        /\ is_monitoring'
        /\ monitoring_thread' = monitoring_thread
        /\ task' = task]_vars

\* start_monitoring has just returned from a call made while running.
C4_Witness ==
    /\ lastOp.op = "start_monitoring"
    /\ lastOp.arg = TRUE
    /\ is_monitoring
    /\ monitoring_thread # 0

\* A thread that is in a cycle, or that will enter one at its loop condition.
Executing(t) ==
    \/ task[t] \in InCycle
    \/ task[t] \in {"loop", "sleep"} /\ is_monitoring

\* C5: in every reachable state at most one monitoring thread is alive and
\* executing monitoring cycles.
C5_SingleMonitoringTask == Cardinality({t \in Tasks : Executing(t)}) <= 1

\* C8: stop_monitoring on a stopped monitor changes nothing of the engine,
\* and a status query that follows a stop_monitoring with no start_monitoring
\* in between and returns a status (the metric reads did not fail) reports
\* monitoring_active = false.
C8_StopThenStatus ==
    [][/\ (lastOp'.op = "stop_monitoring" /\ ~is_monitoring) =>
            /\ ~is_monitoring'
            /\ UNCHANGED <<monitoring_thread, threat_log, whitelisted_processes, task>>
       /\ (lastOp'.op = "stop_monitoring") => ~is_monitoring'
       /\ (lastOp'.op = "get_system_security_status" /\ lastCtl = "stop"
             /\ ~IsError(lastOp'.ret)) => lastOp'.ret.monitoring_active = FALSE]_vars

\* A status was returned after a stop of a monitor that had been started.
C8_Witness ==
    /\ lastOp.op = "get_system_security_status"
    /\ lastCtl = "stop"
    /\ monitoring_thread # 0
    /\ ~IsError(lastOp.ret)
    /\ lastOp.ret.monitoring_active = FALSE

\* C10: scan_file_for_threats on a path that does not exist returns the
\* not-found error and leaves the threat log unchanged.
C10_ScanMissingFile ==
    [][(lastOp'.op = "scan_file_for_threats" /\ ~Exists(fs, lastOp'.arg)) =>
        /\ IsError(lastOp'.ret)
        /\ lastOp'.ret.error = "File not found"
        /\ threat_log' = threat_log
        /\ nlogged' = nlogged]_vars

\* A scan of a missing path has just returned.
C10_Witness ==
    /\ lastOp.op = "scan_file_for_threats"
    /\ ~Exists(fs, lastOp.arg)
    /\ IsError(lastOp.ret)

\* The threads that called start_monitoring, and the threads launched.
Starters == {c \in DOMAIN caller : caller[c].op = "start_monitoring"}
Launched == {t \in Tasks : task[t] # "none"}

\* C6: threads calling start_monitoring concurrently on a stopped monitor
\* (no stop_monitoring is ever called here) launch exactly one monitoring
\* thread between them, whatever the interleaving.
C6_ConcurrentStartLaunchesOne ==
    (Starters # {} /\ \A c \in Starters : caller[c].pc = "returned")
        => Cardinality(Launched) = 1

\* C9: the entry of every completed log_threat call is in the log, unless
\* a cleanup cutoff covers its timestamp or 1000 newer entries were logged.
C9_NoLostEntry ==
    \A c \in DOMAIN caller :
        (caller[c].op = "log_threat" /\ caller[c].pc = "returned") =>
            LET e == caller[c].entry
            IN  \/ \E i \in 1..Len(threat_log) : threat_log[i].id = e.id
                \/ e.timestamp <= pruned
                \/ nlogged - e.id >= 1000

\* C7: stop_monitoring interrupts no thread (every thread stays where it
\* is); while the last lifecycle call is a stop, no thread enters a cycle;
\* and every thread alive then has returned eventually, unless
\* start_monitoring is called again.
C7_StopEndsLoop ==
    /\ [][(lastOp'.op = "stop_monitoring") => task' = task]_vars
    /\ [][lastCtl = "stop" =>
            \A t \in Tasks : ~(task[t] \notin InCycle /\ task'[t] \in InCycle)]_vars
    /\ \A t \in Tasks :
            (lastCtl = "stop" /\ Alive(t)) ~> (task[t] = "done" \/ lastCtl = "start")

\* A thread has returned after a stop that was not followed by a start.
C7_Witness == lastCtl = "stop" /\ \E t \in Tasks : task[t] = "done"

\* The findings of type `kind` in a findings list.
OfKind(findings, kind) ==
    LET Is(f) == f.type = kind IN SelectSeq(findings, Is)

\* C11: for every existing readable file the four checks of a scan are
\* evaluated independently: the findings hold suspicious_extension iff the
\* lower-cased extension is a dangerous one, large_file_size iff the size
\* exceeds 100 MiB, high_entropy iff the entropy exceeds 7.5,
\* known_malware_hash iff the digest is in the known-bad set; each kind at
\* most once; and is_safe is true exactly when there is no finding.
C11_IndependentChecks ==
    (lastOp.op = "scan_file_for_threats" /\ Exists(fs, lastOp.arg)
        /\ Readable(fs[lastOp.arg])) =>
        LET p == lastOp.arg
            ret == lastOp.ret
            found == ret.threats_found
            Has(kind) == Len(OfKind(found, kind)) > 0
        IN  /\ ~IsError(ret)
            /\ Has("suspicious_extension") <=>
                    p.ext \in {".exe", ".EXE", ".scr", ".bat", ".cmd", ".pif", ".com",
                               ".vbs", ".js", ".Js"}
            /\ Has("large_file_size") <=> Size(fs[p]) > 100 * 1024 * 1024
            /\ Has("high_entropy") <=> Entropy100(fs[p]) > 750
            /\ Has("known_malware_hash") <=>
                    (\E h \in known_bad_hashes : h = calculate_file_hash(fs, p))
            /\ \A kind \in {"suspicious_extension", "large_file_size", "high_entropy",
                            "known_malware_hash"} : Len(OfKind(found, kind)) <= 1
            /\ \A i \in 1..Len(found) :
                    found[i].type \in {"suspicious_extension", "large_file_size",
                                       "high_entropy", "known_malware_hash"}
            /\ ret.is_safe <=> (found = <<>>)

\* A scan of a readable file has returned two findings.
C11_Witness ==
    /\ lastOp.op = "scan_file_for_threats"
    /\ Exists(fs, lastOp.arg)
    /\ Readable(fs[lastOp.arg])
    /\ ~IsError(lastOp.ret)
    /\ Len(lastOp.ret.threats_found) = 2
    /\ ~lastOp.ret.is_safe

C13_ScanLogsUnsafeOnly ==
    [][(lastOp'.op = "scan_file_for_threats" /\ Len(threat_log) < 1000) =>
        IF ~IsError(lastOp'.ret) /\ ~lastOp'.ret.is_safe
        THEN /\ Len(threat_log') = Len(threat_log) + 1
             /\ SubSeq(threat_log', 1, Len(threat_log)) = threat_log
             /\ threat_log'[Len(threat_log')].type = "file_threat_detected"
             /\ threat_log'[Len(threat_log')].details = lastOp'.ret
             /\ nlogged' = nlogged + 1
        ELSE /\ threat_log' = threat_log
             /\ nlogged' = nlogged]_vars

\* An unsafe scan has just been logged.
C13_Witness ==
    /\ lastOp.op = "scan_file_for_threats"
    /\ ~IsError(lastOp.ret)
    /\ ~lastOp.ret.is_safe
    /\ Len(threat_log) > 0
    /\ threat_log[Len(threat_log)].type = "file_threat_detected"
    /\ threat_log[Len(threat_log)].details = lastOp.ret

\* C14: a scan of an existing file whose content cannot be read at all
\* (neither for the hash nor for the entropy) returns an error, never a
\* result.
C14_UnreadableFileFails ==
    (lastOp.op = "scan_file_for_threats" /\ Exists(fs, lastOp.arg)
        /\ ~Readable(fs[lastOp.arg])) => IsError(lastOp.ret)

C16_MoveNotCopy ==
    [][(lastOp'.op = "quarantine_file" /\ lastOp'.ret = TRUE) =>
        LET p == lastOp'.arg
            dst == [dir |-> "data/quarantine", stamp |-> now \div TicksPerSecond,
                    stem |-> p.stem, ext |-> p.ext]
        IN  /\ p \in DOMAIN fs
            /\ p \notin DOMAIN fs'
            /\ dst \in DOMAIN fs'
            /\ fs'[dst] = fs[p]
            /\ \E i \in 1..Len(threat_log') :
                /\ threat_log'[i].type = "file_quarantined"
                /\ threat_log'[i].details.original_path = p
                /\ threat_log'[i].details.quarantine_path = dst
                /\ threat_log'[i].id = nlogged']_vars

\* quarantine_file has just returned True.
C16_Witness ==
    /\ lastOp.op = "quarantine_file"
    /\ lastOp.ret = TRUE
    /\ lastOp.arg \notin DOMAIN fs
    /\ \E q \in DOMAIN fs : q.dir = "data/quarantine" /\ q.stem = lastOp.arg.stem

\* C17: quarantine_file on a path that does not exist returns False and
\* changes nothing: no file moved, no quarantine directory made, no entry
\* logged, no notice given.
C17_QuarantineMissingFile ==
    [][(lastOp'.op = "quarantine_file" /\ lastOp'.arg \notin DOMAIN fs) =>
        /\ lastOp'.ret = FALSE
        /\ fs' = fs
        /\ threat_log' = threat_log
        /\ nlogged' = nlogged
        /\ spoken' = <<>>]_vars

\* quarantine_file has just returned from a call on a missing path, and
\* there is still no quarantine directory.
C17_Witness ==
    /\ lastOp.op = "quarantine_file"
    /\ lastOp.ret = FALSE
    /\ lastOp.arg \notin DOMAIN fs
    /\ QuarantineDir \notin DOMAIN fs
    /\ threat_log = <<>>

\* C18: any two quarantine_file calls that returned True have distinct
\* quarantine paths, and the content each of them moved is still present at
\* its quarantine path.
C18_NoCollision ==
    \A i, j \in 1..Len(observed.quarantined) :
        i < j =>
            LET a == observed.quarantined[i]
                b == observed.quarantined[j]
            IN  /\ a.quarantine_path # b.quarantine_path
                /\ a.quarantine_path \in DOMAIN fs
                /\ b.quarantine_path \in DOMAIN fs
                /\ fs[a.quarantine_path] = a.content
                /\ fs[b.quarantine_path] = b.content

\* The entries a step has appended to the log.
NewEntries == {i \in 1..Len(threat_log') : threat_log'[i].id > nlogged}

\* C19: a notice is given for a logged finding only when its severity is
\* high: an operation that logs nothing but medium- and low-severity entries
\* gives no notice to speak().
C19_NoticeOnlyForHigh ==
    [][(nlogged' > nlogged /\ \A i \in NewEntries : threat_log'[i].severity # "high")
            => spoken' = <<>>]_vars

\* C20: a process whose name add_to_whitelist has accepted (and
\* remove_from_whitelist has not been called with since) is not logged as
\* high_cpu_usage or high_memory_usage by a process scan.
C20_WhitelistedNeverFlagged ==
    [][\A i \in NewEntries :
            threat_log'[i].type \in {"high_cpu_usage", "high_memory_usage"}
                => threat_log'[i].details.name \notin observed.added]_vars

\* The three checks of a monitoring cycle.
CheckOps ==
    {"scan_running_processes", "check_system_resources", "monitor_network_connections"}

\* The new entries of type `kind` whose details are `details`.
NewOf(kind, details) ==
    {i \in NewEntries : threat_log'[i].type = kind /\ threat_log'[i].details = details}

\* C25: a fault inside a check of a cycle stays inside: the check logs
\* nothing but threats it found, the thread goes on to the next statement of
\* the cycle and never returns from inside a cycle or from its sleep, and
\* while is_monitoring is true every cycle reaches its sleep and every sleep
\* is followed by another cycle.
C25_FaultsStayInside ==
    /\ [][\A t \in Tasks :
            /\ task[t] \in InCycle => task'[t] \in InCycle \cup {"sleep"}
            /\ task[t] = "sleep" => task'[t] \in {"sleep", "loop"}
            /\ (task[t] = "loop" /\ is_monitoring) => task'[t] \in {"loop", "procs"}]_vars
    /\ [][(lastOp'.op \in CheckOps /\ lastOp'.raised) =>
            /\ task'[lastOp'.arg] \notin {"none", "done"}
            /\ \A i \in NewEntries :
                threat_log'[i].type \in
                    {"suspicious_process", "high_cpu_usage", "high_memory_usage",
                     "high_system_cpu", "high_system_memory", "low_disk_space",
                     "suspicious_network_connection"}]_vars
    /\ \A t \in Tasks : (task[t] \in InCycle) ~> (task[t] = "sleep")
    /\ \A t \in Tasks :
            (task[t] = "sleep" /\ is_monitoring) ~> (task[t] = "procs" \/ ~is_monitoring)

\* A psutil read of check_system_resources has raised and the thread is at
\* the next check of its cycle.
C25_Witness ==
    /\ lastOp.op = "check_system_resources"
    /\ lastOp.raised
    /\ lastOp.input.fail_at = 1
    /\ task[lastOp.arg] = "network"
    /\ is_monitoring

C27_ResourceThresholds ==
    [][(lastOp'.op = "check_system_resources" /\ lastOp'.input.fail_at = 0) =>
        LET r == lastOp'.input
            n(kind) == Cardinality({i \in NewEntries : threat_log'[i].type = kind})
        IN  /\ n("high_system_cpu") = (IF r.cpu > 95 THEN 1 ELSE 0)
            /\ n("high_system_memory") = (IF r.memory > 90 THEN 1 ELSE 0)
            /\ n("low_disk_space") = (IF r.disk > 95 THEN 1 ELSE 0)
            /\ Cardinality(NewEntries) =
                    n("high_system_cpu") + n("high_system_memory") + n("low_disk_space")]_vars

\* A resource check with cpu and memory above and disk below the threshold
\* has logged two entries.
C27_Witness ==
    /\ lastOp.op = "check_system_resources"
    /\ lastOp.input = Readings(96, 91, 30, 0)
    /\ lastOp.ret = 2
    /\ Len(threat_log) = 2
    /\ threat_log[1].type = "high_system_cpu"
    /\ threat_log[2].type = "high_system_memory"

C24_StatusWithinCapacity ==
    (lastOp.op = "get_system_security_status" /\ ~IsError(lastOp.ret))
        => lastOp.ret.total_threats_logged <= 1000

\* C29: when quarantine_file returns False the file is still at its path
\* and no file_quarantined entry was appended.
C29_FailureLeavesFile ==
    [][(lastOp'.op = "quarantine_file" /\ lastOp'.ret = FALSE) =>
        /\ lastOp'.arg \in DOMAIN fs => lastOp'.arg \in DOMAIN fs'
        /\ \A i \in NewEntries : threat_log'[i].type # "file_quarantined"]_vars

\* C21: a returned status has system_health critical iff disk > 90 or a
\* high entry is newer than one hour, else warning iff cpu > 80 or
\* memory > 85, else good; with disk = 96 it is critical and recommends the
\* disk cleanup.
C21_HealthLevels ==
    (lastOp.op = "get_system_security_status" /\ ~IsError(lastOp.ret)) =>
        LET r == lastOp.arg
            status == lastOp.ret
            recentHigh == \E i \in DOMAIN threat_log :
                              /\ threat_log[i].severity = "high"
                              /\ threat_log[i].timestamp > now - HOUR
            critical == r.disk > 90 \/ recentHigh
            warning == r.cpu > 80 \/ r.memory > 85
        IN  /\ status.system_health = "critical" <=> critical
            /\ status.system_health = "warning" <=> (~critical /\ warning)
            /\ status.system_health = "good" <=> (~critical /\ ~warning)
            /\ r.disk = 96 =>
                  /\ status.system_health = "critical"
                  /\ \E i \in DOMAIN status.recommendations :
                        status.recommendations[i] = "Low disk space - cleanup recommended"

\* A status taken with cpu and memory above their limits and disk at 96,
\* when no high entry is recent: critical, with all three hints.
C21_Witness ==
    /\ lastOp.op = "get_system_security_status"
    /\ lastOp.arg = Readings(81, 86, 96, 0)
    /\ \A i \in DOMAIN threat_log :
          threat_log[i].severity = "high" => threat_log[i].timestamp <= now - HOUR
    /\ \E i \in DOMAIN threat_log : threat_log[i].severity = "high"
    /\ lastOp.ret.system_health = "critical"
    /\ Len(lastOp.ret.recommendations) = 3

\* The indices of the log's entries newer than `hours` hours.
Within(hours) ==
    {i \in DOMAIN threat_log : threat_log[i].timestamp > now - hours * HOUR}

RECURSIVE SumOver(_, _)
SumOver(f, keys) ==
    IF keys = {} THEN 0
    ELSE LET k == CHOOSE x \in keys : TRUE
         IN  f[k] + SumOver(f, keys \ {k})

\* C22: a returned summary counts exactly the entries newer than now - hours:
\* their number, their numbers per severity (adding up to the total) and per
\* kind (adding up to the total); no kind from outside the window appears.
C22_SummaryCounts ==
    lastOp.op = "get_threat_summary" =>
        LET summary == lastOp.ret
            inside == Within(lastOp.arg)
            Of(sev) == Cardinality({i \in inside : threat_log[i].severity = sev})
        IN  /\ summary.total_threats = Cardinality(inside)
            /\ summary.high_severity = Of("high")
            /\ summary.medium_severity = Of("medium")
            /\ summary.low_severity = Of("low")
            /\ summary.total_threats =
                  summary.high_severity + summary.medium_severity + summary.low_severity
            /\ DOMAIN summary.threat_types = {threat_log[i].type : i \in inside}
            /\ \A k \in DOMAIN summary.threat_types :
                  summary.threat_types[k] =
                      Cardinality({i \in inside : threat_log[i].type = k})
            /\ SumOver(summary.threat_types, DOMAIN summary.threat_types)
                  = summary.total_threats

\* The summary of 24 hours over two high and one medium entry inside the
\* window and five outside: total 3, high 2, medium 1, low 0.
C22_Witness ==
    /\ lastOp.op = "get_threat_summary"
    /\ lastOp.arg = 24
    /\ Len(threat_log) = 8
    /\ Cardinality(Within(24)) = 3
    /\ lastOp.ret.total_threats = 3
    /\ lastOp.ret.high_severity = 2
    /\ lastOp.ret.medium_severity = 1
    /\ lastOp.ret.low_severity = 0

ReadOnlyOps == {"get_system_security_status", "get_threat_summary", "export_threat_log"}

\* C30: a status, summary or export call leaves the threat log, the
\* whitelist and the monitoring state as they were, and a written export
\* holds every entry of the log, in log order.
C30_ReadOnly ==
    [][lastOp'.op \in ReadOnlyOps =>
        /\ UNCHANGED <<threat_log, whitelisted_processes, is_monitoring,
                       monitoring_thread, task>>
        /\ (lastOp'.op = "export_threat_log" /\ ~lastOp'.raised) =>
              LET written == fs'[lastOp'.ret].json
              IN  /\ Len(written) = Len(threat_log)
                  /\ \A i \in DOMAIN threat_log :
                        /\ written[i].timestamp = threat_log[i].timestamp
                        /\ written[i].type = threat_log[i].type
                        /\ written[i].details = threat_log[i].details
                        /\ written[i].severity = threat_log[i].severity]_vars

\* An export written while monitoring is on, of a log whose first entries
\* are two days old and whose last was logged in this run.
C30_Witness ==
    /\ lastOp.op = "export_threat_log"
    /\ ~lastOp.raised
    /\ is_monitoring
    /\ Len(threat_log) > 8
    /\ now = DAY
    /\ Len(fs[lastOp.ret].json) = Len(threat_log)

\* The ids of the entries of log that satisfy P.
IdsOf(log, P(_)) == {log[i].id : i \in {j \in DOMAIN log : P(log[j])}}

\* A cleanup step that removes exactly the entries satisfying Gone, keeps the
\* others as they were and in their order, and returns the number removed.
CleanupRemoves(Gone(_)) ==
    LET Stays(e) == ~Gone(e)
        All(e) == TRUE
    IN  /\ IdsOf(threat_log', All) = IdsOf(threat_log, Stays)
        /\ \A i \in DOMAIN threat_log' :
              \E j \in DOMAIN threat_log : threat_log'[i] = threat_log[j]
        /\ \A i, j \in DOMAIN threat_log' :
              i < j => threat_log'[i].id < threat_log'[j].id
        /\ lastOp'.ret = Len(threat_log) - Len(threat_log')
        /\ lastOp'.ret = Cardinality(IdsOf(threat_log, Gone))

\* C23 as stated: cleanup_threat_log(days_old) removes exactly the entries
\* older than now - days_old, keeps the others in order and returns the
\* number removed.
C23_RemovesOlder ==
    [][lastOp'.op = "cleanup_threat_log" =>
        LET Older(e) == e.timestamp < now - lastOp'.arg * DAY
        IN  CleanupRemoves(Older)]_vars

\* C23, amended: cleanup_threat_log(days_old) removes exactly the entries
\* whose timestamp is not newer than now - days_old (older than the cutoff
\* or exactly at it), keeps the others in order and returns the number
\* removed.
C23_RemovesNotNewer ==
    [][lastOp'.op = "cleanup_threat_log" =>
        LET NotNewer(e) == e.timestamp <= now - lastOp'.arg * DAY
        IN  CleanupRemoves(NotNewer)]_vars

\* cleanup_threat_log(1) at DAY + 1 with cutoff 1: the first of two entries,
\* logged at or before the cutoff, is removed and the second, logged now, kept.
C23_Witness ==
    /\ lastOp.op = "cleanup_threat_log"
    /\ lastOp.arg = 1
    /\ lastOp.ret = 1
    /\ pruned = 1
    /\ nlogged = 2
    /\ Len(threat_log) = 1
    /\ threat_log[1].id = 2
    /\ threat_log[1].timestamp = DAY + 1

====
